---- MODULE Spec2Model ----
(***************************************************************************)
(* A model of agents/simple_agent/main.py: the interactive shell of the    *)
(* LangGraph/Firecrawl agent.  main() opens the MCP transport and session, *)
(* performs the handshake, loads the tools, builds the agent, and then     *)
(* loops: read a line, stop on "quit", otherwise append the line to the    *)
(* conversation history and await agent.ainvoke on the whole history.      *)
(*                                                                         *)
(* The libraries main() calls (stdio_client, ClientSession, load_mcp_tools,*)
(* create_react_agent, agent.ainvoke, input) are the environment: each is  *)
(* a step that either returns one of a few values or raises.               *)
(***************************************************************************)
EXTENDS Integers, Sequences, FiniteSets, TLC

(***************************************************************************)
(* Bounds of the model.                                                    *)
(***************************************************************************)
\* The number of non-quit lines the user types in one run.
MaxTurns == 2

(***************************************************************************)
(* Program constants.                                                      *)
(***************************************************************************)
\* user_input[:175000]
CAP == 175000

\* messages[0]
SystemMessage ==
    [role |-> "system",
     content |-> "You are a helpful assistant that can scrape websites, crawl pages, and extract data using Firecrawl tools. Think step by step and use the appropriate tools to help the user."]

(***************************************************************************)
(* Strings.  A Python str is a TLA+ string; Len, \o and SubSeq act on it   *)
(* as on a sequence of characters.                                         *)
(***************************************************************************)
RECURSIVE Rep(_, _)
\* s * n
Rep(s, n) ==
    IF n = 0 THEN ""
    ELSE IF n % 2 = 1 THEN s \o Rep(s \o s, n \div 2)
    ELSE Rep(s \o s, n \div 2)

\* A line of exactly CAP characters, and one that is one character longer.
AtCapLine == Rep("a", CAP)
OverCapLine == AtCapLine \o "z"

\* The lines the user may type.
Lines == {"quit", "Quit", "quit ", "quitting", "", AtCapLine, OverCapLine}

\* The tool lists the server may report (tool.name of each tool, in order).
ToolLists == {<<"scrape", "crawl">>, <<>>}

\* What agent.ainvoke may add to the messages it was given: the final
\* assistant message, possibly after a tool call and its result.
Completions ==
    {<<[role |-> "assistant", content |-> "summary"]>>,
     <<[role |-> "assistant", content |-> "call scrape"],
       [role |-> "tool", content |-> "page text"],
       [role |-> "assistant", content |-> "summary"]>>}

\* str(e) of the exceptions agent.ainvoke may raise.
TurnErrors == {"model API error"}

VARIABLES
    pc,             \* where main() is
    transportOpen,  \* the stdio_client context is entered
    sessionOpen,    \* the ClientSession context is entered
    transportOpens, \* how often stdio_client was entered
    sessionOpens,   \* how often ClientSession was entered
    initialized,    \* session.initialize() returned
    tools,          \* the tool names load_mcp_tools returned
    agent,          \* create_react_agent returned
    messages,       \* the conversation history
    stdin,          \* the lines input() has returned so far
    stdout,         \* what was printed so far
    invokes,        \* how often agent.ainvoke was called
    invoked,        \* the messages the latest agent.ainvoke call was given
    exc             \* the exception propagating out of main, or "none"

vars == <<pc, transportOpen, sessionOpen, transportOpens, sessionOpens,
          initialized, tools, agent, messages, stdin, stdout, invokes,
          invoked, exc>>

NoTools == <<"<not loaded>">>

Init ==
    /\ pc = "stdio_client"
    /\ transportOpen = FALSE
    /\ sessionOpen = FALSE
    /\ transportOpens = 0
    /\ sessionOpens = 0
    /\ initialized = FALSE
    /\ tools = NoTools
    /\ agent = FALSE
    /\ messages = <<>>
    /\ stdin = <<>>
    /\ stdout = <<>>
    /\ invokes = 0
    /\ invoked = <<>>
    /\ exc = "none"

(***************************************************************************)
(* Helpers of the loop body.                                               *)
(***************************************************************************)
Min(a, b) == IF a < b THEN a ELSE b

\* A variant: user_input.startswith("quit")
IsQuitPrefix(user_input) ==
    Len(user_input) >= 4 /\ SubSeq(user_input, 1, 4) = "quit"

\* user_input == "quit"
IsQuit(user_input) == user_input = "quit"

\* A variant: user_input[:174999]
TruncateOneShort(user_input) ==
    SubSeq(user_input, 1, Min(Len(user_input), CAP - 1))

\* user_input[:175000]
Truncate(user_input) == SubSeq(user_input, 1, Min(Len(user_input), CAP))

\* A variant: messages = [system prompt, the new user message]
AppendUserToFreshHistory(msgs, user_input) ==
    <<msgs[1], [role |-> "user", content |-> Truncate(user_input)]>>

\* messages.append({"role": "user", "content": user_input[:175000]})
AppendUser(msgs, user_input) ==
    Append(msgs, [role |-> "user", content |-> Truncate(user_input)])

RECURSIVE Join(_)
\* print(..., *names): the names separated by single spaces
Join(names) ==
    IF names = <<>> THEN ""
    ELSE IF Len(names) = 1 THEN names[1]
    ELSE names[1] \o " " \o Join(Tail(names))

\* print("Available Tools -", *[tool.name for tool in tools])
ToolsBanner(names) ==
    IF names = <<>> THEN "Available Tools -"
    ELSE "Available Tools - " \o Join(names)

Printed(kind, text) == [kind |-> kind, text |-> text]

\* The non-quit lines read so far.
Turns(read) == SelectSeq(read, LAMBDA l : ~IsQuit(l))

\* The lines input() may return next: any line, until the user has typed
\* MaxTurns lines of conversation, and then quit.
NextLines == IF Len(Turns(stdin)) < MaxTurns THEN Lines ELSE {"quit"}

(***************************************************************************)
(* Startup: lines 78-103.                                                  *)
(***************************************************************************)
\* async with stdio_client(server_params) as (read, write): the subprocess is
\* spawned, or the spawn raises and nothing was entered.
EnterTransport ==
    /\ pc = "stdio_client"
    /\ \/ /\ transportOpen' = TRUE
          /\ transportOpens' = transportOpens + 1
          /\ pc' = "ClientSession"
          /\ exc' = exc
       \/ /\ exc' = "spawn failed"
          /\ pc' = "raised"
          /\ UNCHANGED <<transportOpen, transportOpens>>
    /\ UNCHANGED <<sessionOpen, sessionOpens, initialized, tools, agent,
                   messages, stdin, stdout, invokes, invoked>>

\* async with ClientSession(read, write) as session
EnterSession ==
    /\ pc = "ClientSession"
    /\ \/ /\ sessionOpen' = TRUE
          /\ sessionOpens' = sessionOpens + 1
          /\ pc' = "initialize"
          /\ exc' = exc
       \/ /\ exc' = "session failed"
          /\ pc' = "exit_stdio_client"
          /\ UNCHANGED <<sessionOpen, sessionOpens>>
    /\ UNCHANGED <<transportOpen, transportOpens, initialized, tools, agent,
                   messages, stdin, stdout, invokes, invoked>>

\* A variant: a failed handshake is ignored and startup goes on.
InitializeIgnoresFailure ==
    /\ pc = "initialize"
    /\ \/ initialized' = TRUE
       \/ initialized' = initialized
    /\ pc' = "load_mcp_tools"
    /\ UNCHANGED <<transportOpen, sessionOpen, transportOpens, sessionOpens,
                   tools, agent, messages, stdin, stdout, invokes, invoked,
                   exc>>

\* await session.initialize()
Initialize ==
    /\ pc = "initialize"
    /\ \/ /\ initialized' = TRUE
          /\ pc' = "load_mcp_tools"
          /\ exc' = exc
       \/ /\ exc' = "handshake failed"
          /\ pc' = "exit_ClientSession"
          /\ UNCHANGED initialized
    /\ UNCHANGED <<transportOpen, sessionOpen, transportOpens, sessionOpens,
                   tools, agent, messages, stdin, stdout, invokes, invoked>>

\* tools = await load_mcp_tools(session)
LoadTools ==
    /\ pc = "load_mcp_tools"
    /\ \/ /\ \E names \in ToolLists : tools' = names
          /\ pc' = "create_react_agent"
          /\ exc' = exc
       \/ /\ exc' = "tool discovery failed"
          /\ pc' = "exit_ClientSession"
          /\ UNCHANGED tools
    /\ UNCHANGED <<transportOpen, sessionOpen, transportOpens, sessionOpens,
                   initialized, agent, messages, stdin, stdout, invokes,
                   invoked>>

\* agent = create_react_agent(model, tools); messages = [system prompt];
\* the two prints of the tool names and the rule.  Nothing here awaits.
\* Or create_react_agent raises.
CreateAgent ==
    /\ pc = "create_react_agent"
    /\ \/ /\ agent' = TRUE
          /\ messages' = <<SystemMessage>>
          /\ stdout' = stdout \o <<Printed("tools", ToolsBanner(tools)),
                                   Printed("rule", Rep("-", 60))>>
          /\ pc' = "input"
          /\ exc' = exc
       \/ /\ exc' = "agent construction failed"
          /\ pc' = "exit_ClientSession"
          /\ UNCHANGED <<agent, messages, stdout>>
    /\ UNCHANGED <<transportOpen, sessionOpen, transportOpens, sessionOpens,
                   initialized, tools, stdin, invokes, invoked>>

(***************************************************************************)
(* The interactive loop: lines 106-124.                                    *)
(***************************************************************************)
\* A variant: the line is appended before the quit test.
ReadInputAppendsFirst ==
    /\ pc = "input"
    /\ \E user_input \in NextLines :
          /\ stdin' = Append(stdin, user_input)
          /\ messages' = AppendUser(messages, user_input)
          /\ IF IsQuit(user_input)
             THEN /\ stdout' = stdout \o <<Printed("prompt", "\nYou: "),
                                           Printed("farewell", "Goodbye")>>
                  /\ pc' = "exit_ClientSession"
             ELSE /\ stdout' = Append(stdout, Printed("prompt", "\nYou: "))
                  /\ pc' = "ainvoke"
    /\ UNCHANGED <<transportOpen, sessionOpen, transportOpens, sessionOpens,
                   initialized, tools, agent, invokes, invoked, exc>>

\* user_input = input("\nYou: ") returns a line; the quit test; the append.
ReadInput ==
    /\ pc = "input"
    /\ \E user_input \in NextLines :
          /\ stdin' = Append(stdin, user_input)
          /\ IF IsQuit(user_input)
             THEN /\ stdout' = stdout \o <<Printed("prompt", "\nYou: "),
                                           Printed("farewell", "Goodbye")>>
                  /\ messages' = messages
                  /\ pc' = "exit_ClientSession"
             ELSE /\ stdout' = Append(stdout, Printed("prompt", "\nYou: "))
                  /\ messages' = AppendUser(messages, user_input)
                  /\ pc' = "ainvoke"
    /\ UNCHANGED <<transportOpen, sessionOpen, transportOpens, sessionOpens,
                   initialized, tools, agent, invokes, invoked, exc>>

\* input() raises (EOFError at end of input): outside the try block, so the
\* exception leaves the loop.
ReadInputRaises ==
    /\ pc = "input"
    /\ stdout' = Append(stdout, Printed("prompt", "\nYou: "))
    /\ exc' = "EOFError"
    /\ pc' = "exit_ClientSession"
    /\ UNCHANGED <<transportOpen, sessionOpen, transportOpens, sessionOpens,
                   initialized, tools, agent, messages, stdin, invokes,
                   invoked>>

\* agent_response = await agent.ainvoke({"messages": messages}) returns;
\* ai_message = agent_response["messages"][-1].content; print it.
AinvokeReturns ==
    /\ pc = "ainvoke"
    /\ invokes' = invokes + 1
    /\ invoked' = messages
    /\ \E added \in Completions :
          LET agent_response == [messages |-> messages \o added]
              ai_message ==
                  agent_response.messages[Len(agent_response.messages)].content
          IN  stdout' = Append(stdout, Printed("agent", ai_message))
    /\ messages' = messages
    /\ pc' = "input"
    /\ UNCHANGED <<transportOpen, sessionOpen, transportOpens, sessionOpens,
                   initialized, tools, agent, stdin, exc>>

\* A variant: the error text is appended to the history as the reply.
AinvokeRaisesAppendsError ==
    /\ pc = "ainvoke"
    /\ invokes' = invokes + 1
    /\ invoked' = messages
    /\ \E e \in TurnErrors :
          /\ stdout' = Append(stdout, Printed("error", e))
          /\ messages' =
                Append(messages, [role |-> "assistant", content |-> e])
    /\ pc' = "input"
    /\ UNCHANGED <<transportOpen, sessionOpen, transportOpens, sessionOpens,
                   initialized, tools, agent, stdin, exc>>

\* A variant: the user message of the failed turn is taken back.
AinvokeRaisesRollsBack ==
    /\ pc = "ainvoke"
    /\ invokes' = invokes + 1
    /\ invoked' = messages
    /\ \E e \in TurnErrors : stdout' = Append(stdout, Printed("error", e))
    /\ messages' = SubSeq(messages, 1, Len(messages) - 1)
    /\ pc' = "input"
    /\ UNCHANGED <<transportOpen, sessionOpen, transportOpens, sessionOpens,
                   initialized, tools, agent, stdin, exc>>

\* A variant: no try block around the invocation.
AinvokeRaisesPropagates ==
    /\ pc = "ainvoke"
    /\ invokes' = invokes + 1
    /\ invoked' = messages
    /\ \E e \in TurnErrors : exc' = e
    /\ pc' = "exit_ClientSession"
    /\ UNCHANGED <<transportOpen, sessionOpen, transportOpens, sessionOpens,
                   initialized, tools, agent, messages, stdin, stdout>>

\* agent.ainvoke raises an Exception: except Exception as e: print("Error:", e)
AinvokeRaises ==
    /\ pc = "ainvoke"
    /\ invokes' = invokes + 1
    /\ invoked' = messages
    /\ \E e \in TurnErrors : stdout' = Append(stdout, Printed("error", e))
    /\ messages' = messages
    /\ pc' = "input"
    /\ UNCHANGED <<transportOpen, sessionOpen, transportOpens, sessionOpens,
                   initialized, tools, agent, stdin, exc>>

\* agent.ainvoke is interrupted: the await raises a BaseException that is
\* not an Exception (asyncio.CancelledError, KeyboardInterrupt), which the
\* except clause does not catch.
AinvokeInterrupted ==
    /\ pc = "ainvoke"
    /\ invokes' = invokes + 1
    /\ invoked' = messages
    /\ exc' = "interrupted"
    /\ pc' = "exit_ClientSession"
    /\ UNCHANGED <<transportOpen, sessionOpen, transportOpens, sessionOpens,
                   initialized, tools, agent, messages, stdin, stdout>>

(***************************************************************************)
(* Leaving the two async with blocks: after break, or with an exception.   *)
(***************************************************************************)
\* ClientSession.__aexit__
ExitSession ==
    /\ pc = "exit_ClientSession"
    /\ sessionOpen' = FALSE
    /\ pc' = "exit_stdio_client"
    /\ UNCHANGED <<transportOpen, transportOpens, sessionOpens, initialized,
                   tools, agent, messages, stdin, stdout, invokes, invoked,
                   exc>>

\* A variant: the transport is closed after the loop, not by a with block,
\* so an exception passes the close by.
ExitTransportOnReturnOnly ==
    /\ pc = "exit_stdio_client"
    /\ transportOpen' = (exc # "none" /\ transportOpen)
    /\ pc' = IF exc = "none" THEN "returned" ELSE "raised"
    /\ UNCHANGED <<sessionOpen, transportOpens, sessionOpens, initialized,
                   tools, agent, messages, stdin, stdout, invokes, invoked,
                   exc>>

\* stdio_client.__aexit__, and main returns or the exception leaves it
ExitTransport ==
    /\ pc = "exit_stdio_client"
    /\ transportOpen' = FALSE
    /\ pc' = IF exc = "none" THEN "returned" ELSE "raised"
    /\ UNCHANGED <<sessionOpen, transportOpens, sessionOpens, initialized,
                   tools, agent, messages, stdin, stdout, invokes, invoked,
                   exc>>

Next ==
    \/ EnterTransport
    \/ EnterSession
    \/ Initialize
    \/ LoadTools
    \/ CreateAgent
    \/ ReadInput
    \/ ReadInputRaises
    \/ AinvokeReturns
    \/ AinvokeRaises
    \/ AinvokeInterrupted
    \/ ExitSession
    \/ ExitTransport

Spec == Init /\ [][Next]_vars

(***************************************************************************)
(* Vocabulary of the properties.                                           *)
(***************************************************************************)
Last(seq) == seq[Len(seq)]

\* The lines read that are not the literal quit: the submitted turns.
Submitted == SelectSeq(stdin, LAMBDA l : l # "quit")

\* The first n characters of a line (the whole line when it is shorter).
FirstChars(l, n) == IF Len(l) <= n THEN l ELSE SubSeq(l, 1, n)

UserMessage(l) == [role |-> "user", content |-> FirstChars(l, 175000)]

UserMessages(msgs) == SelectSeq(msgs, LAMBDA m : m.role = "user")

IsPrefix(s, t) == Len(s) <= Len(t) /\ SubSeq(t, 1, Len(s)) = s

HasPrinted(kind) == \E i \in 1..Len(stdout) : stdout[i].kind = kind

\* main() has left the while loop (or never entered it) and is on its way out.
Leaving ==
    pc \in {"exit_ClientSession", "exit_stdio_client", "returned", "raised"}

StartupFailures ==
    {"spawn failed", "session failed", "handshake failed",
     "tool discovery failed", "agent construction failed"}

\* A turn has just ended and the shell is back at the prompt.
TurnEnded(kind) ==
    /\ pc = "input"
    /\ invokes > 0
    /\ Last(stdout).kind = kind

(***************************************************************************)
(* C1.  After a successful turn the history is two entries longer than     *)
(* before the turn: the user message followed by the assistant message     *)
(* that carries the reply.  (invoked is the history the turn's call was    *)
(* given: the history before the turn plus the user message.)              *)
(***************************************************************************)
C1_AssistantReplyAppended ==
    TurnEnded("agent") =>
        /\ Len(messages) = (Len(invoked) - 1) + 2
        /\ messages[Len(messages) - 1].role = "user"
        /\ Last(messages) =
              [role |-> "assistant", content |-> Last(stdout).text]

(***************************************************************************)
(* C2.  After a turn whose invocation raised, the history is exactly one   *)
(* entry longer than before the turn: the user message is still its last   *)
(* entry and no assistant message was appended.                            *)
(***************************************************************************)
C2_FailedTurnAddsOne ==
    TurnEnded("error") =>
        /\ Len(messages) = (Len(invoked) - 1) + 1
        /\ Last(messages) = UserMessage(Last(stdin))
        /\ \A i \in 1..Len(messages) : messages[i].role # "assistant"

C2_Witness ==
    /\ TurnEnded("error")
    /\ invokes = 2
    /\ Len(messages) = 3

(***************************************************************************)
(* C3.  Only the exact, case-sensitive line quit ends the loop.  Every     *)
(* other line (Quit, quit with a trailing space, quitting, the empty line) *)
(* is appended as a user message and the agent is invoked for it: a step   *)
(* that reads quit leaves the loop with the history untouched, a step      *)
(* that reads any other line appends it and goes on to the invocation, and *)
(* one invocation is made for every such line.                             *)
(***************************************************************************)
C3_OnlyExactQuitExits ==
    /\ [][stdin' # stdin =>
            IF Last(stdin') = "quit"
            THEN pc' = "exit_ClientSession" /\ messages' = messages
            ELSE /\ pc' = "ainvoke"
                 /\ messages' =
                       Append(messages, UserMessage(Last(stdin')))]_vars
    /\ [](invokes = Len(Submitted) - (IF pc = "ainvoke" THEN 1 ELSE 0))
    /\ [](pc = "returned" => Last(stdin) = "quit")

C3_Witness ==
    /\ stdin = <<"quitting", "Quit", "quit">>
    /\ invokes = 2
    /\ Len(messages) = 3
    /\ pc = "returned"

(***************************************************************************)
(* C4.  The user message appended for a line holds the first               *)
(* min(len(line), 175000) characters of the line: a longer line is cut to  *)
(* exactly 175000 characters, its tail dropped, and a line of at most      *)
(* 175000 characters is stored unchanged.                                  *)
(***************************************************************************)
C4_ContentIsCappedPrefix ==
    pc = "ainvoke" =>
        LET line == Last(stdin)
            content == Last(messages).content
        IN  /\ Last(messages).role = "user"
            /\ Len(content) = (IF Len(line) < CAP THEN Len(line) ELSE CAP)
            /\ SubSeq(line, 1, Len(content)) = content
            /\ Len(line) <= CAP => content = line
            /\ Len(line) > CAP => Len(content) = CAP

C4_Witness ==
    /\ pc = "ainvoke"
    /\ Last(stdin) = OverCapLine
    /\ Len(Last(stdin)) = CAP + 1
    /\ Len(Last(messages).content) = CAP
    /\ Last(messages).content = AtCapLine

(***************************************************************************)
(* C5.  Every submitted line adds exactly one user message, whether its    *)
(* turn succeeds or fails: the user messages of the history are those of   *)
(* the submitted lines, one each, in the order of submission.              *)
(***************************************************************************)
C5_OneUserMessagePerTurn ==
    Len(messages) > 0 =>
        /\ Len(UserMessages(messages)) = Len(Submitted)
        /\ \A i \in 1..Len(Submitted) :
              UserMessages(messages)[i] = UserMessage(Submitted[i])

C5_Witness ==
    /\ pc = "input"
    /\ Len(Submitted) = 2
    /\ Len(UserMessages(messages)) = 2
    /\ stdout[4].kind = "error"
    /\ stdout[6].kind = "agent"

(***************************************************************************)
(* C6.  On quit the shell prints the farewell and leaves the loop; nothing *)
(* is appended to the history and the agent is not invoked for that line.  *)
(* When quit is the first line, the run makes no invocation at all, hence  *)
(* no model call and no tool call.                                         *)
(***************************************************************************)
C6_QuitDoesNothingElse ==
    (stdin # <<>> /\ Last(stdin) = "quit") =>
        /\ Leaving
        /\ exc = "none"
        /\ Last(stdout) = Printed("farewell", "Goodbye")
        /\ Len(messages) = 1 + Len(Submitted)
        /\ Last(messages).content # "quit"
        /\ invokes = Len(Submitted)
        /\ stdin = <<"quit">> => invokes = 0 /\ messages = <<SystemMessage>>

C6_Witness ==
    /\ stdin = <<"quit">>
    /\ pc = "returned"
    /\ invokes = 0

\* An error of a turn never ends the loop: unless the invocation is
\* interrupted, the shell prints one line (the reply or the error), is back
\* at the prompt with no exception pending, and from there issues the next
\* prompt.
TurnNeverEndsTheLoop ==
    /\ [][(pc = "ainvoke" /\ exc' # "interrupted") =>
            /\ pc' = "input"
            /\ exc' = "none"
            /\ Len(stdout') = Len(stdout) + 1
            /\ Last(stdout').kind \in {"agent", "error"}]_vars
    /\ [][pc = "input" =>
            /\ Len(stdout') > Len(stdout)
            /\ stdout'[Len(stdout) + 1] = Printed("prompt", "\nYou: ")]_vars

(***************************************************************************)
(* C7, as claimed.  An error raised by the invocation does not end the     *)
(* shell: it is caught, an error line is printed, the shell is back at the *)
(* prompt and the next prompt is issued; only quit, or a failure during    *)
(* startup, ends the loop.                                                 *)
(***************************************************************************)
C7_OnlyQuitEndsTheLoop ==
    /\ TurnNeverEndsTheLoop
    /\ [](Leaving =>
            \/ stdin # <<>> /\ Last(stdin) = "quit"
            \/ exc \in StartupFailures)

(***************************************************************************)
(* C7, as amended.  An error raised by the invocation does not end the     *)
(* shell: it is caught, an error line is printed, the shell is back at the *)
(* prompt and the next prompt is issued; only quit, a failure during       *)
(* startup, or an exception the handler of the turn does not catch (one    *)
(* raised by reading the input, outside the try block, or an interrupt of  *)
(* the invocation, which is not an Exception) ends the loop.               *)
(***************************************************************************)
C7_OnlyQuitOrUncaughtEndsTheLoop ==
    /\ TurnNeverEndsTheLoop
    /\ [](Leaving =>
            \/ stdin # <<>> /\ Last(stdin) = "quit" /\ exc = "none"
            \/ exc \in StartupFailures /\ stdin = <<>> /\ ~HasPrinted("prompt")
            \/ exc = "EOFError" /\ Last(stdout).kind = "prompt"
            \/ exc = "interrupted" /\ invokes = Len(Submitted))

C7_Witness ==
    /\ Len(stdout) >= 5
    /\ stdout[4].kind = "error"
    /\ stdout[5].kind = "prompt"
    /\ pc = "ainvoke"

(***************************************************************************)
(* C8.  No prompt is issued and no line is read before the transport was   *)
(* opened, the session opened, the handshake done, the tools loaded and    *)
(* their names printed, in that order.  When the spawn, the session, the   *)
(* handshake or the tool discovery fails, the failure leaves main with no  *)
(* prompt issued, no line read and no invocation made.                     *)
(***************************************************************************)
C8_StartupBeforeFirstPrompt ==
    \* each startup step rests on the one before it
    /\ sessionOpens = 1 => transportOpens = 1
    /\ initialized => sessionOpens = 1
    /\ tools # NoTools => initialized
    /\ agent => tools # NoTools
    /\ stdout # <<>> =>
          /\ agent
          /\ Len(stdout) >= 2
          /\ stdout[1].kind = "tools"
          /\ tools = <<"scrape", "crawl">> =>
                stdout[1].text = "Available Tools - scrape crawl"
          /\ tools = <<>> => stdout[1].text = "Available Tools -"
          /\ stdout[2].kind = "rule"
    \* the prompt comes after all of them
    /\ \A i \in 1..Len(stdout) : stdout[i].kind = "prompt" => i > 2
    /\ (stdin # <<>> \/ invokes > 0) => HasPrinted("prompt")
    /\ pc \in {"input", "ainvoke"} =>
          transportOpen /\ sessionOpen /\ initialized /\ agent
    \* a startup failure propagates
    /\ exc \in StartupFailures =>
          /\ Leaving
          /\ stdout = <<>>
          /\ stdin = <<>>
          /\ invokes = 0
          /\ messages = <<>>

C8_Witness ==
    /\ pc = "ainvoke"
    /\ tools = <<"scrape", "crawl">>
    /\ stdout[1].text = "Available Tools - scrape crawl"
    /\ stdout[3].kind = "prompt"

(***************************************************************************)
(* C9.  The transport and the session are opened once and not again, and   *)
(* whichever way main ends after opening them (quit, a failed handshake or *)
(* tool discovery, an exception from reading input) both are released.     *)
(***************************************************************************)
C9_OpenedOnceAlwaysReleased ==
    /\ transportOpens <= 1
    /\ sessionOpens <= 1
    /\ transportOpen => transportOpens = 1
    /\ sessionOpen => sessionOpens = 1 /\ transportOpen
    /\ (pc # "stdio_client" /\ exc # "spawn failed") => transportOpens = 1
    /\ pc \in {"returned", "raised"} => ~transportOpen /\ ~sessionOpen
    /\ pc = "returned" <=>
          (stdin # <<>> /\ Last(stdin) = "quit" /\ ~transportOpen)
    /\ pc = "raised" => exc # "none"

C9_Witness ==
    /\ pc = "raised"
    /\ exc = "EOFError"
    /\ invokes = 1
    /\ transportOpens = 1
    /\ sessionOpens = 1
    /\ ~transportOpen
    /\ ~sessionOpen

(***************************************************************************)
(* C10.  The history only grows at its end and starts with the system      *)
(* prompt; the invocation of turn k is given the system message followed   *)
(* by the user messages of turns 1..k, failed turns included, the current  *)
(* turn's last.                                                            *)
(***************************************************************************)
C10_AppendOnlyHistory ==
    /\ [][IsPrefix(messages, messages')]_vars
    /\ [](Len(messages) > 0 => messages[1] = SystemMessage)
    /\ [](invokes > 0 =>
            /\ Len(invoked) = invokes + 1
            /\ invoked[1] = SystemMessage
            /\ \A k \in 1..invokes : invoked[k + 1] = UserMessage(Submitted[k])
            /\ IsPrefix(invoked, messages))

C10_Witness ==
    /\ invokes = 2
    /\ Len(invoked) = 3
    /\ stdout[4].kind = "error"
    /\ invoked[2].content = "Quit"
    /\ invoked[3].content = ""

====
